---- MODULE Spec2Model ----
(***************************************************************************)
(* Model of the WebSocketClient of src/index.js (the class that starts at  *)
(* line 353): the secure-socket session, the sign-in handshake, the        *)
(* request/response correlation over the client's own event emitter, the   *)
(* keepalive timer and the telnet scraping of the device token.            *)
(*                                                                         *)
(* JavaScript runs one task at a time.  Every action below is one task:    *)
(* a call of a public method by the application, one event of a socket,    *)
(* one timer expiry, or one continuation of an async function (a           *)
(* microtask).  Microtasks run before the next task: while the queue       *)
(* `micro` is not empty only RunMicrotask is enabled.                      *)
(***************************************************************************)
EXTENDS Integers, Sequences, FiniteSets, TLC

\* ---------------------------------------------------------------- bounds
MaxSockets == 2      \* connect() calls (each creates one WebSocket)
MaxCalls   == 3      \* _sendJsonAsync calls
MaxLogins  == 2      \* login() calls
MaxTelnet  == 1      \* telnet sessions
MaxChunks  == 4      \* data chunks received per telnet session
MaxSetPins == 1      \* setPin() calls

\* ------------------------------------------------------ program constants
TYPE_SOCKET      == 16
TYPE_LED         == 41
SequenceSeed     == 1000
DefaultKeepAlive == 30

\* ------------------------------------------------------------ JS values
UNDEF == "undefined"                 \* the JavaScript value undefined
Truthy(v) == v # "" /\ v # UNDEF     \* truthiness of a string-or-undefined

\* Strings the environment can supply.
InitialPin  == "p1"                       \* opt.pin
SetPinArgs  == {"p1", "p2"}               \* arguments of setPin
Salts       == {"s1", "s2"}               \* salts the device issues
DeviceIds   == {"d1"}                     \* device_id the device reports
TokenKey    == "\"DeviceToken\""          \* the key getTokenFromTelnet looks for

\* ------------------------------------------------------------ the state
VARIABLES
    keepAliveOpt,       \* opt.keepAlive as passed to the constructor
    useTelnetForToken,  \* _device.useTelnetForToken
    hasErrorListener,   \* the application subscribed to 'error' on the client
    pin, salt, deviceId, token,   \* _device.pin / salt / deviceId / token
    connected,          \* _device.connected (undefined counts as FALSE)
    sequence,           \* _device.sequence
    socks,              \* every WebSocket created so far, in creation order
    cur,                \* _device.socket: index into socks, 0 for the initial {}
    pingHandler,        \* _device.pingHandler holds a timer handle
    pingArmed,          \* that timer has neither fired nor been cleared
    pingCalls,          \* invocations of _ping so far
    pingsSent,          \* keep_alive pings put on a socket so far
    calls,              \* every _sendJsonAsync call so far
    logins,             \* every login() call so far
    tns,                \* every telnet session so far
    micro,              \* queue of async continuations ready to run
    uncaught,           \* an exception escaped an event handler: the process died
    lastSetPin          \* history: the cache situation at the latest setPin

vars == <<keepAliveOpt, useTelnetForToken, hasErrorListener, pin, salt, deviceId,
          token, connected, sequence, socks, cur, pingHandler, pingArmed,
          pingCalls, pingsSent, calls, logins, tns, micro, uncaught, lastSetPin>>

cfgVars    == <<keepAliveOpt, useTelnetForToken, hasErrorListener>>
pingVars   == <<pingHandler, pingArmed, pingCalls, pingsSent>>
credVars   == <<pin, salt, deviceId>>

\* -------------------------------------------------------- constructor
\* keepAlive: opt.keepAlive || 30
KeepAlive(opt) == IF opt = 0 THEN DefaultKeepAlive ELSE opt

keepAlive == KeepAlive(keepAliveOpt)

NoSetPin == [active |-> FALSE, cached |-> UNDEF, n |-> 0]

Init ==
    /\ keepAliveOpt \in {0, 5}
    /\ useTelnetForToken \in BOOLEAN
    /\ hasErrorListener \in BOOLEAN
    /\ pin = InitialPin
    /\ salt = ""
    /\ deviceId = ""
    /\ token = UNDEF
    /\ connected = FALSE
    /\ sequence = SequenceSeed
    /\ socks = <<>>
    /\ cur = 0
    /\ pingHandler = FALSE
    /\ pingArmed = FALSE
    /\ pingCalls = 0
    /\ pingsSent = 0
    /\ calls = <<>>
    /\ logins = <<>>
    /\ tns = <<>>
    /\ micro = <<>>
    /\ uncaught = FALSE
    /\ lastSetPin = NoSetPin

\* The socket _device.socket refers to is an open WebSocket.
CurOpen == cur # 0 /\ socks[cur].readyState = "OPEN"

Idle == micro = <<>> /\ ~uncaught

\* ------------------------------------------------------ token derivation
\* A digest that leaves the pin out (update(salt) only).
sha1hexSaltOnly(p, s) == "sha1(" \o s \o ")"

\* SHA-1 over update(pin) then update(salt): the digest of the bytes of pin
\* followed by the bytes of salt, hex-encoded.  The digest is kept symbolic:
\* equal byte strings give equal digests, different ones different digests.
sha1hex(p, s) == "sha1(" \o p \o s \o ")"

\* _generateDeviceToken: the value of _device.token after the call, which is
\* also what the call returns.
generateDeviceToken(tok, p, s, d) ==
    IF ~Truthy(tok) /\ Truthy(s) /\ Truthy(d)
    THEN d \o "-" \o sha1hex(p, s)
    ELSE tok

\* ------------------------------------------------------------ keepalive
\* _ping with receiver `this`: hasDevice says whether this._device exists,
\* sockOpen whether this._device.socket.readyState is OPEN.  Gives the timer
\* handle, whether a timer is pending, and the pings sent, after the call.
ping(hasDevice, sockOpen, handler, armed, sent) ==
    IF ~hasDevice
    THEN [handler |-> handler, armed |-> armed, sent |-> sent]
    ELSE [handler |-> TRUE,
          armed   |-> TRUE,     \* clearTimeout of the old handle, then setTimeout
          sent    |-> IF sockOpen THEN sent + 1 ELSE sent]

\* --------------------------------------------------------------- connect
\* A notification 'switched' or 'switched-led' with its two parameters.
Note(name, on, idx) == [name |-> name, on |-> on, idx |-> idx]
NoNote == Note("none", FALSE, 0)

NewSocket(w) ==
    [readyState |-> "CONNECTING",
     resolved   |-> FALSE,       \* the closure variable `resolved` of connect()
     promise    |-> "pending",   \* the promise connect() returned
     opened     |-> FALSE,       \* the transport has signalled open
     errored    |-> FALSE,       \* the transport has signalled an error
     settles    |-> 0,           \* resolve/reject calls on the promise
     ready      |-> 0,           \* 'ready' notifications emitted for it
     closes     |-> 0,           \* 'close' notifications emitted for it
     errors     |-> 0,           \* 'error' notifications emitted for it
     grace      |-> "none",      \* the 500 ms timer of disconnect(): none, armed, fired
     forced     |-> FALSE,       \* terminate() has been applied to this socket
     note       |-> NoNote,      \* what its latest message made the client emit
     waiter     |-> w]           \* the login() awaiting the promise, 0 if none

\* connect(): a new WebSocket replaces _device.socket, the handlers are
\* registered on it, and _ping() is called when keepAlive > 0.
connectEffect(w) ==
    /\ socks' = Append(socks, NewSocket(w))
    /\ cur' = Len(socks) + 1
    /\ IF keepAlive > 0
       THEN LET r == ping(TRUE, socks'[cur'].readyState = "OPEN",
                          pingHandler, pingArmed, pingsSent)
            IN /\ pingHandler' = r.handler
               /\ pingArmed' = r.armed
               /\ pingsSent' = r.sent
               /\ pingCalls' = pingCalls + 1
       ELSE UNCHANGED pingVars

\* ------------------------------------------------------------- sending
\* What the caller of switch / switchLED / state gets: nothing yet, a boolean,
\* a list of booleans, an API error with code and message, a rejection by the
\* channel, or a TypeError.
Outcome(t, b, list, code, msg) == [t |-> t, b |-> b, list |-> list, code |-> code, msg |-> msg]
NoOutcome == Outcome("none", FALSE, <<>>, 0, "")

\* An inbound message, by the fields the client reads (UNDEF: field absent).
Msg(cmd, q, s, d, code, msg, setting, ty, idx, v) ==
    [command |-> cmd, sequence_id |-> q, salt |-> s, device_id |-> d, code |-> code,
     message |-> msg, setting |-> setting, evType |-> ty, evIdx |-> idx, evValue |-> v]
NoMsg == Msg("none", 0, UNDEF, UNDEF, 0, "", <<>>, 0, 0, 0)
SignInReply(q, s, d) == Msg("sign_in", q, s, d, 0, "", <<>>, 0, 0, 0)
SettingReply(cmd, q, code, msg, setting) == Msg(cmd, q, UNDEF, UNDEF, code, msg, setting, 0, 0, 0)
EventMsg(ty, idx, v) == Msg("event", 0, UNDEF, UNDEF, 0, "", <<>>, ty, idx, v)

\* A _buildJSON that numbers the request before incrementing the counter.
buildJSONPostIncrement(p) ==
    [sequence_id  |-> sequence,
     device_id    |-> IF Truthy(deviceId) THEN deviceId ELSE UNDEF,
     device_token |-> IF Truthy(deviceId)
                      THEN generateDeviceToken(token, p, salt, deviceId)
                      ELSE UNDEF]

\* _buildJSON: the envelope fields that depend on the session.
\* p is the value of _device.pin when the call is made.
buildJSON(p) ==
    [sequence_id  |-> sequence + 1,
     device_id    |-> IF Truthy(deviceId) THEN deviceId ELSE UNDEF,
     device_token |-> IF Truthy(deviceId)
                      THEN generateDeviceToken(token, p, salt, deviceId)
                      ELSE UNDEF]

\* socket.send throws on the initial {} (send is not a function) and on a
\* WebSocket that is still CONNECTING; on a CLOSING or CLOSED one it only
\* reports the failure to the logging callback.
sendThrows == cur = 0 \/ socks[cur].readyState = "CONNECTING"

\* _sendJsonAsync(data): the listeners are registered on the client first,
\* then _sendJson builds and sends.  When the send throws, the executor
\* throws: the promise is rejected, the listeners stay registered and
\* expectedSequence is never initialised (tdz).
NewCall(kind, owner, value, idx, type, p) ==
    LET d == buildJSON(p) IN
    [kind |-> kind, owner |-> owner, value |-> value, idx |-> idx, type |-> type,
     seq          |-> IF sendThrows THEN 0 ELSE d.sequence_id,
     tdz          |-> sendThrows,
     status       |-> IF sendThrows THEN "rejected" ELSE "pending",
     listening    |-> TRUE,
     sock         |-> cur,
     wire         |-> CurOpen,              \* the request went out
     device_id    |-> d.device_id,
     device_token |-> d.device_token,
     pinUsed      |-> p,                    \* history: _device.pin at the send
     afterSetPin  |-> lastSetPin.active,    \* history: first send after a setPin
     replaced     |-> lastSetPin.cached,    \* history: the token cached at that setPin
     pings        |-> pingCalls,            \* history: _ping invocations before the send
     settles      |-> 0,                    \* resolve/reject calls by its listeners
     reply        |-> NoMsg,
     outcome      |-> NoOutcome]

sendJsonAsync(kind, owner, value, idx, type, p) ==
    /\ calls' = Append(calls, NewCall(kind, owner, value, idx, type, p))
    /\ sequence' = sequence + 1
    /\ token' = IF Truthy(deviceId)
                THEN generateDeviceToken(token, p, salt, deviceId)
                ELSE token
    /\ lastSetPin' = [NoSetPin EXCEPT !.n = lastSetPin.n]

\* --------------------------------------------------------------- telnet
\* A received chunk, by what the handler looks at: which substrings it
\* contains, and what d.split(',') followed by pair.split(':') gives.  A value
\* is the sequence of its characters, UNDEF when the pair has no ':'.
Quoted(cs) == <<"\"">> \o cs \o <<"\"">>
Chunk(l, pw, m, h, ps) ==
    [hasLogin |-> l, hasPassword |-> pw, hasMarker |-> m, hasHash |-> h, pairs |-> ps]

ChunkLogin    == Chunk(TRUE, FALSE, FALSE, FALSE, <<>>)        \* "login: "
ChunkPassword == Chunk(FALSE, TRUE, FALSE, FALSE, <<>>)        \* "Password: "
ChunkPrompt   == Chunk(FALSE, FALSE, FALSE, TRUE, <<>>)        \* "# "
\* ..."DeviceToken":"tk","Other":1
ChunkToken    == Chunk(FALSE, FALSE, TRUE, FALSE,
                       <<[key |-> TokenKey, value |-> Quoted(<<"t", "k">>)],
                         [key |-> "\"Other\"", value |-> <<"1">>]>>)
\* the same followed by the next shell prompt
ChunkTokenPrompt == Chunk(FALSE, FALSE, TRUE, TRUE,
                       <<[key |-> TokenKey, value |-> Quoted(<<"t", "k">>)],
                         [key |-> "\"Other\"", value |-> <<"1">>]>>)
\* {"DeviceToken":"tk"}: the key of the only pair starts with the brace
ChunkNoKey    == Chunk(FALSE, FALSE, TRUE, FALSE,
                       <<[key |-> "{\"DeviceToken\"", value |-> Quoted(<<"t", "k">>)]>>)
NoChunk       == Chunk(FALSE, FALSE, FALSE, FALSE, <<>>)

Chunks == {ChunkLogin, ChunkPassword, ChunkPrompt, ChunkToken, ChunkTokenPrompt, ChunkNoKey}

RECURSIVE Join(_)
Join(cs) == IF cs = <<>> THEN "" ELSE Head(cs) \o Join(Tail(cs))

NewTelnet(owner) ==
    [owner   |-> owner,       \* the login() that awaits it, 0 for a direct call
     conn    |-> "open",      \* open, ended (s.end was called), failing, closed
     promise |-> "pending",
     result  |-> NoChunk,
     writes  |-> <<>>,        \* what was written to the connection, in order
     late    |-> FALSE,       \* a write was attempted after s.end
     seen    |-> <<>>,        \* history: the chunks received, in order
     extract |-> "none",      \* getTokenFromTelnet after its await: ok, noToken
     chunks  |-> 0]

CatCommand == "cat /mydlink/config/device.cfg\n"

\* A 'data' handler that answers the password prompt with the user name.
telnetDataWrongPassword(t, d) ==
    LET canWrite == t.conn = "open"
        ended == d.hasMarker /\ canWrite
        w1 == IF d.hasLogin THEN <<"admin\n">> ELSE <<>>
        w2 == IF d.hasPassword THEN <<"admin\n">> ELSE <<>>
        w3 == IF d.hasMarker THEN <<"EOT">> ELSE <<>>
        w4 == IF d.hasHash /\ ~ended THEN <<CatCommand>> ELSE <<>>
    IN [t EXCEPT
          !.writes  = IF canWrite THEN @ \o w1 \o w2 \o w3 \o w4 ELSE @,
          !.conn    = IF ended THEN "ended" ELSE @,
          !.late    = @ \/ (~canWrite /\ (d.hasLogin \/ d.hasPassword \/ d.hasHash))
                        \/ (ended /\ d.hasHash),
          !.promise = IF d.hasMarker /\ @ = "pending" THEN "resolved" ELSE @,
          !.result  = IF d.hasMarker /\ t.promise = "pending" THEN d ELSE @,
          !.seen    = Append(@, d),
          !.chunks  = @ + 1]

\* The 'data' handler of _getFileContentsFromTelnet on session record t for
\* chunk d: the four checks in the order of the code.  s.end is called by the
\* marker check, so the write of the '#' check that follows it in the same
\* chunk comes after the end.
telnetData(t, d) ==
    LET canWrite == t.conn = "open"
        ended == d.hasMarker /\ canWrite
        w1 == IF d.hasLogin THEN <<"admin\n">> ELSE <<>>
        w2 == IF d.hasPassword THEN <<"123456\n">> ELSE <<>>
        w3 == IF d.hasMarker THEN <<"EOT">> ELSE <<>>
        w4 == IF d.hasHash /\ ~ended THEN <<CatCommand>> ELSE <<>>
    IN [t EXCEPT
          !.writes  = IF canWrite THEN @ \o w1 \o w2 \o w3 \o w4 ELSE @,
          !.conn    = IF ended THEN "ended" ELSE @,
          !.late    = @ \/ (~canWrite /\ (d.hasLogin \/ d.hasPassword \/ d.hasHash))
                        \/ (ended /\ d.hasHash),
          !.promise = IF d.hasMarker /\ @ = "pending" THEN "resolved" ELSE @,
          !.result  = IF d.hasMarker /\ t.promise = "pending" THEN d ELSE @,
          !.seen    = Append(@, d),
          !.chunks  = @ + 1]

\* An extraction that keeps the value as it stands in the file.
getTokenKeepsQuotes(d) ==
    LET hits == {i \in 1..Len(d.pairs) : d.pairs[i].key = TokenKey} IN
    IF hits = {} THEN [ok |-> FALSE, pin |-> UNDEF]
    ELSE LET i == CHOOSE j \in hits : \A h \in hits : j <= h
         IN [ok |-> TRUE, pin |-> Join(d.pairs[i].value)]

\* getTokenFromTelnet after the await: the first pair whose key is exactly
\* "DeviceToken" (with the quotes) gives the pin, its value without the first
\* and last character.
getToken(d) ==
    LET hits == {i \in 1..Len(d.pairs) : d.pairs[i].key = TokenKey} IN
    IF hits = {} THEN [ok |-> FALSE, pin |-> UNDEF]
    ELSE LET i == CHOOSE j \in hits : \A h \in hits : j <= h
             v == d.pairs[i].value
         IN [ok |-> TRUE, pin |-> Join(SubSeq(v, 2, Len(v) - 1))]

\* ---------------------------------------------------------------- login
NewLogin(pc, k) == [pc |-> pc, sock |-> k, tn |-> 0, call |-> 0, adopted |-> UNDEF]

\* Work already promised by login() calls that are still on their way: each
\* will make one _sendJsonAsync call, and one telnet session when configured.
SignInsToCome == Cardinality({l \in 1..Len(logins) : logins[l].pc \in {"connect", "telnet"}})
TelnetsToCome == IF useTelnetForToken
                 THEN Cardinality({l \in 1..Len(logins) : logins[l].pc = "connect"})
                 ELSE 0
RoomForCall   == Len(calls) + SignInsToCome < MaxCalls
RoomForTelnet == Len(tns) + TelnetsToCome < MaxTelnet

\* login() from `const message = await this._sendJsonAsync({command: 'sign_in'})`,
\* for login l of ls, with p the value of _device.pin.
signIn(l, ls, p) ==
    /\ sendJsonAsync("sign_in", l, 0, 0, 0, p)
    /\ logins' = [ls EXCEPT ![l].pc   = IF sendThrows THEN "failed" ELSE "signin",
                            ![l].call = Len(calls) + 1]

\* A login() that goes straight to sign_in, whatever useTelnetForToken says.
loginProceedNoTelnet(l, ls) ==
    /\ signIn(l, ls, pin)
    /\ UNCHANGED tns

\* login() from `if (this._device.useTelnetForToken)`.
loginProceed(l, ls) ==
    IF useTelnetForToken
    THEN /\ tns' = Append(tns, NewTelnet(l))
         /\ logins' = [ls EXCEPT ![l].pc = "telnet", ![l].tn = Len(tns) + 1]
         /\ UNCHANGED <<calls, sequence, token, lastSetPin>>
    ELSE /\ signIn(l, ls, pin)
         /\ UNCHANGED tns

\* The application calls login().
login ==
    /\ Idle
    /\ Len(logins) < MaxLogins
    /\ RoomForCall
    /\ useTelnetForToken => RoomForTelnet
    /\ LET l == Len(logins) + 1 IN
       IF ~CurOpen
       THEN /\ Len(socks) < MaxSockets
            /\ connectEffect(l)
            /\ logins' = Append(logins, NewLogin("connect", Len(socks) + 1))
            /\ UNCHANGED <<calls, sequence, token, lastSetPin, tns>>
       ELSE /\ loginProceed(l, Append(logins, NewLogin("start", cur)))
            /\ UNCHANGED <<socks, cur, pingVars>>
    /\ UNCHANGED <<cfgVars, credVars, connected, micro, uncaught>>

\* The application calls connect().
connect ==
    /\ Idle
    /\ Len(socks) < MaxSockets
    /\ connectEffect(0)
    /\ UNCHANGED <<cfgVars, credVars, token, connected, sequence, calls, logins,
                   tns, micro, uncaught, lastSetPin>>

\* login() resumes after `await this.connect()`.
resumeAfterConnect ==
    /\ ~uncaught
    /\ micro # <<>>
    /\ Head(micro).t = "connectOk"
    /\ loginProceed(Head(micro).ref, logins)
    /\ micro' = Tail(micro)
    /\ UNCHANGED <<cfgVars, credVars, connected, socks, cur, pingVars, uncaught>>

\* getTokenFromTelnet() resumes after `await this._getFileContentsFromTelnet`,
\* and login(), when it awaits it, right after.
resumeAfterTelnet ==
    /\ ~uncaught
    /\ micro # <<>>
    /\ Head(micro).t = "telnetOk"
    /\ LET t == Head(micro).ref
           l == tns[t].owner
           r == getToken(tns[t].result)
       IN /\ pin' = IF r.ok THEN r.pin ELSE pin
          /\ tns' = [tns EXCEPT ![t].extract = IF r.ok THEN "ok" ELSE "noToken"]
          /\ IF l = 0
             THEN UNCHANGED <<logins, calls, sequence, token, lastSetPin>>
             ELSE IF r.ok
                  THEN signIn(l, [logins EXCEPT ![l].adopted = r.pin], r.pin)
                  ELSE /\ logins' = [logins EXCEPT ![l].pc = "failed"]
                       /\ UNCHANGED <<calls, sequence, token, lastSetPin>>
    /\ micro' = Tail(micro)
    /\ UNCHANGED <<cfgVars, salt, deviceId, connected, socks, cur, pingVars, uncaught>>

\* login() resumes after the sign_in call resolved with message m:
\* salt and deviceId are assigned, deviceId.substring throws on undefined,
\* then connected is set.
loginFinish(m, conn) ==
    [salt      |-> m.salt,
     deviceId  |-> m.device_id,
     ok        |-> m.device_id # UNDEF,
     connected |-> IF m.device_id # UNDEF THEN TRUE ELSE conn]

resumeAfterSignIn ==
    /\ ~uncaught
    /\ micro # <<>>
    /\ Head(micro).t = "signinOk"
    /\ LET c == Head(micro).ref
           l == calls[c].owner
           r == loginFinish(calls[c].reply, connected)
       IN /\ salt' = r.salt
          /\ deviceId' = r.deviceId
          /\ connected' = r.connected
          /\ logins' = [logins EXCEPT ![l].pc = IF r.ok THEN "done" ELSE "failed"]
    /\ micro' = Tail(micro)
    /\ UNCHANGED <<cfgVars, pin, token, sequence, socks, cur, pingVars, calls, tns,
                   uncaught, lastSetPin>>

\* -------------------------------------------- requests of the application
\* _setSetting(value, socket, type) up to the await.
setSettingCall(value, socket, type) ==
    /\ Idle
    /\ RoomForCall
    /\ sendJsonAsync("set_setting", 0, value, socket, type, pin)
    /\ UNCHANGED <<cfgVars, credVars, connected, socks, cur, pingVars, logins, tns,
                   micro, uncaught>>

\* switch(on, socket)
switch(on, socket) == setSettingCall(IF on THEN 1 ELSE 0, socket, TYPE_SOCKET)

\* switchLED(on, led)
switchLED(on, led) == setSettingCall(IF on THEN 1 ELSE 0, led, TYPE_LED)

\* state(socket): _getSetting(TYPE_SOCKET) up to the await.
state(socket) ==
    /\ Idle
    /\ RoomForCall
    /\ sendJsonAsync("get_setting", 0, 0, socket, TYPE_SOCKET, pin)
    /\ UNCHANGED <<cfgVars, credVars, connected, socks, cur, pingVars, logins, tns,
                   micro, uncaught>>

\* A _setSetting that takes every non-zero echoed value for "on".
setSettingTruthy(m) ==
    IF m.code # 0
    THEN Outcome("apiError", FALSE, <<>>, m.code, m.message)
    ELSE IF m.setting = <<>>
         THEN Outcome("typeError", FALSE, <<>>, 0, "")
         ELSE Outcome("bool", m.setting[1] # 0, <<>>, 0, "")

\* _setSetting after the await, for response m.
setSetting(m) ==
    IF m.code # 0
    THEN Outcome("apiError", FALSE, <<>>, m.code, m.message)
    ELSE IF m.setting = <<>>
         THEN Outcome("typeError", FALSE, <<>>, 0, "")
         ELSE Outcome("bool", m.setting[1] = 1, <<>>, 0, "")

\* A state(socket) that reads the entry after the one asked for.
getSettingOffByOne(m, socket) ==
    IF m.code # 0
    THEN Outcome("apiError", FALSE, <<>>, m.code, m.message)
    ELSE IF socket >= 0
         THEN IF socket + 2 > Len(m.setting)
              THEN Outcome("typeError", FALSE, <<>>, 0, "")
              ELSE Outcome("bool", m.setting[socket + 2] = 1, <<>>, 0, "")
         ELSE Outcome("list", FALSE, [k \in 1..Len(m.setting) |-> m.setting[k] = 1], 0, "")

\* _getSetting and state(socket) after the await, for response m.  The
\* argument is a JavaScript index: settings[socket] is m.setting[socket + 1].
getSetting(m, socket) ==
    IF m.code # 0
    THEN Outcome("apiError", FALSE, <<>>, m.code, m.message)
    ELSE IF socket >= 0
         THEN IF socket + 1 > Len(m.setting)
              THEN Outcome("typeError", FALSE, <<>>, 0, "")
              ELSE Outcome("bool", m.setting[socket + 1] = 1, <<>>, 0, "")
         ELSE Outcome("list", FALSE, [k \in 1..Len(m.setting) |-> m.setting[k] = 1], 0, "")

\* handleMessage of call c for message m.
handleMessage(c, m) ==
    IF m.sequence_id # c.seq
    THEN c
    ELSE [c EXCEPT !.listening = FALSE,
                   !.settles   = @ + 1,
                   !.status    = IF @ = "pending" THEN "resolved" ELSE @,
                   !.reply     = IF c.status = "pending" THEN m ELSE @,
                   !.outcome   = IF c.status # "pending" THEN @
                                 ELSE IF c.kind = "set_setting" THEN setSetting(m)
                                 ELSE IF c.kind = "get_setting" THEN getSetting(m, c.idx)
                                 ELSE @]

\* A handleError that rejects without unregistering the listeners.
handleErrorKeepsListeners(c) ==
    [c EXCEPT !.settles = @ + 1,
              !.status  = IF @ = "pending" THEN "rejected" ELSE @]

\* handleError of call c (registered for 'close' and for 'error').
handleError(c) ==
    [c EXCEPT !.listening = FALSE,
              !.settles   = @ + 1,
              !.status    = IF @ = "pending" THEN "rejected" ELSE @,
              !.outcome   = IF c.status = "pending" /\ c.kind # "sign_in"
                            THEN Outcome("rejected", FALSE, <<>>, 0, "") ELSE @]

\* this.emit('close', ...) or this.emit('error', ...) on the client.
emitClosed(cs) ==
    [i \in 1..Len(cs) |-> IF cs[i].listening THEN handleError(cs[i]) ELSE cs[i]]

\* The listeners whose expectedSequence was never initialised: reading it
\* throws a ReferenceError out of emit('message').
Tdz == {i \in 1..Len(calls) : calls[i].listening /\ calls[i].tdz}
FirstTdz == IF Tdz = {} THEN Len(calls) + 1
            ELSE CHOOSE i \in Tdz : \A j \in Tdz : i <= j

\* this.emit('message', data): the listeners run in the order they were
\* registered, up to the first one that throws.
emitMessage(cs, m) ==
    [i \in 1..Len(cs) |-> IF cs[i].listening /\ i < FirstTdz
                          THEN handleMessage(cs[i], m) ELSE cs[i]]

\* login() calls that await something that has just been rejected.
failLogins(ls, cs, ss) ==
    [l \in 1..Len(ls) |->
        IF \/ ls[l].pc = "signin" /\ cs[ls[l].call].status = "rejected"
           \/ ls[l].pc = "connect" /\ ss[ls[l].sock].promise = "rejected"
        THEN [ls[l] EXCEPT !.pc = "failed"] ELSE ls[l]]

\* ------------------------------------------------- events of a WebSocket
\* The transport: a socket opens at most once; an error leaves it CLOSING and
\* is followed by its close; a socket that has not opened closes only after
\* an error; messages arrive on an established connection until it is closed.
Sockets == 1..Len(socks)

\* 'open' on socket k: resolve(true); resolved = true; emit('ready').
socketOpen(k) ==
    /\ Idle
    /\ socks[k].readyState = "CONNECTING"
    /\ socks' = [socks EXCEPT ![k].readyState = "OPEN",
                              ![k].opened = TRUE,
                              ![k].promise = IF @ = "pending" THEN "resolved" ELSE @,
                              ![k].settles = @ + 1,
                              ![k].ready = @ + 1,
                              ![k].resolved = TRUE]
    /\ micro' = IF socks[k].waiter # 0 /\ socks[k].promise = "pending"
                THEN Append(micro, [t |-> "connectOk", ref |-> socks[k].waiter])
                ELSE micro
    /\ UNCHANGED <<cfgVars, credVars, token, connected, sequence, cur, pingVars,
                   calls, logins, tns, uncaught, lastSetPin>>

\* The 'error' handler of connect() for a socket in state s; gives the socket
\* state after it and whether 'error' is emitted on the client.
onSocketError(s) ==
    [sock |-> [s EXCEPT !.resolved = TRUE,
                        !.promise = IF ~s.resolved /\ @ = "pending" THEN "rejected" ELSE @,
                        !.settles = IF s.resolved THEN @ ELSE @ + 1,
                        !.errors  = IF s.resolved THEN @ + 1 ELSE @],
     emit |-> s.resolved]

\* A 'close' handler that rejects without looking at `resolved`.
onSocketCloseAlwaysRejects(s) ==
    [sock |-> [s EXCEPT !.resolved = TRUE,
                        !.promise = IF @ = "pending" THEN "rejected" ELSE @,
                        !.settles = @ + 1,
                        !.closes  = IF s.resolved THEN @ + 1 ELSE @],
     emit |-> s.resolved]

\* The 'close' handler of connect(), likewise.
onSocketClose(s) ==
    [sock |-> [s EXCEPT !.resolved = TRUE,
                        !.promise = IF ~s.resolved /\ @ = "pending" THEN "rejected" ELSE @,
                        !.settles = IF s.resolved THEN @ ELSE @ + 1,
                        !.closes  = IF s.resolved THEN @ + 1 ELSE @],
     emit |-> s.resolved]

\* 'error' on socket k.  An 'error' emitted on a client that has no listener
\* for it throws.
socketError(k) ==
    /\ Idle
    /\ socks[k].readyState \in {"CONNECTING", "OPEN", "CLOSING"}
    /\ ~socks[k].errored
    /\ LET r == onSocketError(socks[k])
           unheard == r.emit /\ ~hasErrorListener /\ \A i \in 1..Len(calls) : ~calls[i].listening
           cs == IF r.emit THEN emitClosed(calls) ELSE calls
           ss == [socks EXCEPT ![k] = [r.sock EXCEPT !.readyState = "CLOSING", !.errored = TRUE]]
       IN /\ socks' = ss
          /\ calls' = cs
          /\ uncaught' = unheard
          /\ logins' = failLogins(logins, cs, ss)
    /\ connected' = FALSE
    /\ UNCHANGED <<cfgVars, credVars, token, sequence, cur, pingVars, tns, micro,
                   lastSetPin>>

\* 'close' on socket k.
socketClose(k) ==
    /\ Idle
    /\ socks[k].readyState \in {"OPEN", "CLOSING"}
    /\ socks[k].opened \/ socks[k].errored
    /\ LET r == onSocketClose(socks[k])
           cs == IF r.emit THEN emitClosed(calls) ELSE calls
           ss == [socks EXCEPT ![k] = [r.sock EXCEPT !.readyState = "CLOSED"]]
       IN /\ socks' = ss
          /\ calls' = cs
          /\ logins' = failLogins(logins, cs, ss)
    /\ connected' = FALSE
    /\ UNCHANGED <<cfgVars, credVars, token, sequence, cur, pingVars, tns, micro,
                   uncaught, lastSetPin>>

\* What the device can send on socket k: a reply to a request that went out
\* on k (of the kind of that request, possibly incomplete or repeated), or an
\* event.
Sent(k) == {i \in 1..Len(calls) : calls[i].wire /\ calls[i].sock = k}
SignInReplies(q, salts) ==
    {SignInReply(q, s, d) : s \in salts, d \in DeviceIds \cup {UNDEF}}
SetReplies(q) ==
    {SettingReply("set_setting", q, 0, "", <<v>>) : v \in {0, 1, 2}}
    \cup {SettingReply("set_setting", q, 424, msg, <<>>) : msg \in {"e1", "e2"}}
GetReplies(q) ==
    {SettingReply("get_setting", q, 0, "", vs) : vs \in {<<1, 0, 1, 0>>, <<0>>}}
    \cup {SettingReply("get_setting", q, code, "e1", <<>>) : code \in {424, 3}}
Events == {EventMsg(TYPE_SOCKET, 0, 1), EventMsg(TYPE_LED, 1, 0)}
\* Events of a socket and of the LED with other values, and of another type.
MoreEvents == {EventMsg(TYPE_SOCKET, 2, 0), EventMsg(TYPE_SOCKET, 1, 2),
               EventMsg(TYPE_LED, 0, 1), EventMsg(99, 0, 1)}

\* The channel view: one complete reply per request, and an event.
ChannelReplies(i) ==
    IF calls[i].kind = "sign_in" THEN {SignInReply(calls[i].seq, "s1", "d1")}
    ELSE {SettingReply(calls[i].kind, calls[i].seq, 0, "", <<1>>)}
ChannelMessages(k) == {EventMsg(TYPE_SOCKET, 0, 1)} \cup UNION {ChannelReplies(i) : i \in Sent(k)}
\* The same without the event.
ReplyMessages(k) == UNION {ChannelReplies(i) : i \in Sent(k)}

\* The request view: every reply to a setting request.
RequestReplies(i) ==
    IF calls[i].kind = "sign_in" THEN {SignInReply(calls[i].seq, "s1", "d1")}
    ELSE IF calls[i].kind = "set_setting" THEN SetReplies(calls[i].seq)
    ELSE GetReplies(calls[i].seq)
RequestMessages(k) == UNION {RequestReplies(i) : i \in Sent(k)}

\* The handshake view: every sign_in reply, one reply to a setting request.
AuthReplies(i) ==
    IF calls[i].kind = "sign_in" THEN SignInReplies(calls[i].seq, Salts \cup {UNDEF})
    ELSE {SettingReply(calls[i].kind, calls[i].seq, 0, "", <<1>>)}
AuthMessages(k) == UNION {AuthReplies(i) : i \in Sent(k)}

\* _receiveData after emit('message'): what an event message makes it emit.
eventNotification(m) ==
    IF m.command # "event" THEN NoNote
    ELSE IF m.evType = TYPE_SOCKET THEN Note("switched", m.evValue = 1, m.evIdx)
    ELSE IF m.evType = TYPE_LED THEN Note("switched-led", m.evValue = 1, m.evIdx)
    ELSE NoNote

\* 'message' on socket k: _receiveData(data).  When a listener of 'message'
\* throws, the rest of _receiveData does not run.
receiveData(k, m) ==
    /\ Idle
    /\ socks[k].readyState \in {"OPEN", "CLOSING"}
    /\ socks[k].opened /\ ~socks[k].errored
    /\ LET cs == emitMessage(calls, m)
           won == {i \in 1..Len(calls) : calls[i].status = "pending" /\ cs[i].status = "resolved"
                                          /\ calls[i].kind = "sign_in"}
       IN /\ calls' = cs
          /\ uncaught' = (Tdz # {})
          /\ micro' = IF won = {} THEN micro
                      ELSE Append(micro, [t |-> "signinOk", ref |-> CHOOSE i \in won : TRUE])
    /\ socks' = [socks EXCEPT ![k].note = IF Tdz # {} THEN NoNote ELSE eventNotification(m)]
    /\ UNCHANGED <<cfgVars, credVars, token, connected, sequence, cur, pingVars,
                   logins, tns, lastSetPin>>

\* ------------------------------------------------------------ disconnect
\* disconnect(): on the initial {} socket.close is not a function and the
\* call throws before anything is changed.
\* A disconnect() that leaves the keepalive timer running.
disconnectKeepsTimer ==
    /\ Idle
    /\ cur # 0
    /\ socks' = [socks EXCEPT ![cur].readyState =
                     IF @ \in {"CONNECTING", "OPEN"} THEN "CLOSING" ELSE @,
                              ![cur].grace = "armed"]
    /\ connected' = FALSE
    /\ UNCHANGED <<cfgVars, credVars, token, sequence, cur, pingVars, calls, logins,
                   tns, micro, uncaught, lastSetPin>>

\* disconnect(): socket.close(), setTimeout(socket.terminate, 500),
\* clearTimeout(pingHandler), connected = false.  Several pending 500 ms
\* timers of one socket are kept as one.
disconnect ==
    /\ Idle
    /\ cur # 0
    /\ socks' = [socks EXCEPT ![cur].readyState =
                     IF @ \in {"CONNECTING", "OPEN"} THEN "CLOSING" ELSE @,
                              ![cur].grace = "armed"]
    /\ pingArmed' = IF pingHandler THEN FALSE ELSE pingArmed
    /\ connected' = FALSE
    /\ UNCHANGED <<cfgVars, credVars, token, sequence, cur, pingHandler, pingCalls,
                   pingsSent, calls, logins, tns, micro, uncaught, lastSetPin>>

\* The 500 ms timer of disconnect() expires for socket k:
\* setTimeout(this._device.socket.terminate, 500) calls terminate with the
\* timer object as `this`, not the socket.  What terminate does with a
\* receiver that is no WebSocket depends on the ws release: it finds nothing
\* to destroy and returns, or it calls a method the receiver does not have
\* and throws, out of the timer callback.  The socket is not touched.
graceTimer(k) ==
    /\ Idle
    /\ socks[k].grace = "armed"
    /\ socks' = [socks EXCEPT ![k].grace = "fired"]
    /\ \E threw \in BOOLEAN : uncaught' = threw
    /\ UNCHANGED <<cfgVars, credVars, token, connected, sequence, cur, pingVars, calls,
                   logins, tns, micro, lastSetPin>>

\* A timer callback that sends keep_alive as a correlated request.
pingTimerCorrelated ==
    /\ Idle
    /\ pingArmed
    /\ Len(calls) < MaxCalls
    /\ sendJsonAsync("keep_alive", 0, 0, 0, 0, pin)
    /\ pingArmed' = FALSE
    /\ pingCalls' = pingCalls + 1
    /\ UNCHANGED <<cfgVars, credVars, connected, socks, cur, pingHandler, pingsSent,
                   logins, tns, micro, uncaught>>

\* The keepalive timer expires: setTimeout(this._ping, ...) calls _ping with
\* the timer object as `this`, which has no _device.
pingTimer ==
    /\ Idle
    /\ pingArmed
    /\ LET r == ping(FALSE, CurOpen, pingHandler, FALSE, pingsSent)
       IN /\ pingHandler' = r.handler
          /\ pingArmed' = r.armed
          /\ pingsSent' = r.sent
    /\ pingCalls' = pingCalls + 1
    /\ UNCHANGED <<cfgVars, credVars, token, connected, sequence, socks, cur, calls,
                   logins, tns, micro, uncaught, lastSetPin>>

\* ---------------------------------------------------------------- setPin
\* setPin(newPin): the pin is replaced and the cached token dropped.
setPin(newPin) ==
    /\ Idle
    /\ lastSetPin.n < MaxSetPins
    /\ pin' = newPin
    /\ token' = ""
    /\ lastSetPin' = [active |-> newPin # pin /\ Truthy(token)
                                 /\ token = deviceId \o "-" \o sha1hex(pin, salt),
                      cached |-> IF newPin # pin /\ Truthy(token)
                                    /\ token = deviceId \o "-" \o sha1hex(pin, salt)
                                 THEN token ELSE UNDEF,
                      n      |-> lastSetPin.n + 1]
    /\ UNCHANGED <<cfgVars, salt, deviceId, connected, sequence, socks, cur, pingVars,
                   calls, logins, tns, micro, uncaught>>

\* ------------------------------------------------------ telnet sessions
\* The application calls getTokenFromTelnet().
getTokenFromTelnet ==
    /\ Idle
    /\ RoomForTelnet
    /\ tns' = Append(tns, NewTelnet(0))
    /\ UNCHANGED <<cfgVars, credVars, token, connected, sequence, socks, cur, pingVars,
                   calls, logins, micro, uncaught, lastSetPin>>

\* 'data' on telnet session t.
telnetChunk(t, d) ==
    /\ Idle
    /\ tns[t].conn \in {"open", "ended"}
    /\ tns[t].chunks < MaxChunks
    /\ tns' = [tns EXCEPT ![t] = telnetData(tns[t], d)]
    /\ micro' = IF tns[t].promise = "pending" /\ tns'[t].promise = "resolved"
                THEN Append(micro, [t |-> "telnetOk", ref |-> t])
                ELSE micro
    /\ UNCHANGED <<cfgVars, credVars, token, connected, sequence, socks, cur, pingVars,
                   calls, logins, uncaught, lastSetPin>>

\* Handlers of 'close', 'error' and 'end' whose rejection overrides an
\* earlier result.
telnetGoneOverrides(t, ev) ==
    /\ Idle
    /\ tns[t].conn # "closed"
    /\ ev # "close" => tns[t].conn \in {"open", "ended"}
    /\ tns' = [tns EXCEPT ![t].conn = IF ev = "close" THEN "closed" ELSE "failing",
                          ![t].promise = "rejected",
                          ![t].result = NoChunk]
    /\ logins' = [l \in 1..Len(logins) |->
                     IF logins[l].pc = "telnet" /\ logins[l].tn = t
                     THEN [logins[l] EXCEPT !.pc = "failed"] ELSE logins[l]]
    /\ UNCHANGED <<cfgVars, credVars, token, connected, sequence, socks, cur, pingVars,
                   calls, micro, uncaught, lastSetPin>>

\* 'close', 'error' or 'end' on telnet session t: each handler rejects.
telnetGone(t, ev) ==
    /\ Idle
    /\ tns[t].conn # "closed"
    /\ ev # "close" => tns[t].conn \in {"open", "ended"}
    /\ tns' = [tns EXCEPT ![t].conn = IF ev = "close" THEN "closed" ELSE "failing",
                          ![t].promise = IF @ = "pending" THEN "rejected" ELSE @]
    /\ logins' = [l \in 1..Len(logins) |->
                     IF logins[l].pc = "telnet" /\ logins[l].tn = t
                     THEN [logins[l] EXCEPT !.pc = "failed"] ELSE logins[l]]
    /\ UNCHANGED <<cfgVars, credVars, token, connected, sequence, socks, cur, pingVars,
                   calls, micro, uncaught, lastSetPin>>

\* ------------------------------------------------------ the state machine
\* The channel: connections, requests and their correlation.
InitChannel ==
    /\ Init
    /\ keepAliveOpt = 5
    /\ ~useTelnetForToken

NextChannel ==
    \/ login
    \/ connect
    \/ disconnect
    \/ resumeAfterConnect
    \/ resumeAfterSignIn
    \/ state(0)
    \/ \E k \in Sockets : socketOpen(k)
    \/ \E k \in Sockets : socketError(k)
    \/ \E k \in Sockets : socketClose(k)
    \/ \E k \in Sockets : \E m \in ChannelMessages(k) : receiveData(k, m)

SpecChannel == InitChannel /\ [][NextChannel]_vars

\* The requests of the application and what the device answers.
InitRequests ==
    /\ Init
    /\ keepAliveOpt = 5
    /\ ~useTelnetForToken
    /\ hasErrorListener

NextRequests ==
    \/ login
    \/ disconnect
    \/ resumeAfterConnect
    \/ resumeAfterSignIn
    \/ \E on \in BOOLEAN : switch(on, 0)
    \/ \E on \in BOOLEAN : switchLED(on, 0)
    \/ \E socket \in {0, 2, -1} : state(socket)
    \/ \E k \in Sockets : socketOpen(k)
    \/ \E k \in Sockets : socketError(k)
    \/ \E k \in Sockets : socketClose(k)
    \/ \E k \in Sockets : \E m \in RequestMessages(k) : receiveData(k, m)

SpecRequests == InitRequests /\ [][NextRequests]_vars

\* The handshake and the credentials.
InitAuth ==
    /\ Init
    /\ keepAliveOpt = 5
    /\ ~useTelnetForToken
    /\ hasErrorListener

NextAuth ==
    \/ login
    \/ disconnect
    \/ resumeAfterConnect
    \/ resumeAfterSignIn
    \/ state(0)
    \/ \E k \in Sockets : socketOpen(k)
    \/ \E k \in Sockets : socketError(k)
    \/ \E k \in Sockets : socketClose(k)
    \/ \E k \in Sockets : \E m \in AuthMessages(k) : receiveData(k, m)

SpecAuth == InitAuth /\ [][NextAuth]_vars

\* Replacing the pin: setPin and getTokenFromTelnet.
PinReplies(i) ==
    IF calls[i].kind = "sign_in" THEN SignInReplies(calls[i].seq, Salts)
    ELSE {SettingReply(calls[i].kind, calls[i].seq, 0, "", <<1>>)}
PinMessages(k) == UNION {PinReplies(i) : i \in Sent(k)}

NextPin ==
    \/ login
    \/ resumeAfterConnect
    \/ resumeAfterSignIn
    \/ resumeAfterTelnet
    \/ state(0)
    \/ \E v \in SetPinArgs : setPin(v)
    \/ getTokenFromTelnet
    \/ \E k \in Sockets : socketOpen(k)
    \/ \E k \in Sockets : socketClose(k)
    \/ \E k \in Sockets : \E m \in PinMessages(k) : receiveData(k, m)
    \/ \E t \in 1..Len(tns) : telnetChunk(t, ChunkToken)
    \/ \E t \in 1..Len(tns) : telnetGone(t, "close")

SpecPin == InitAuth /\ [][NextPin]_vars

\* login() with the token taken from telnet.
InitTelnetLogin ==
    /\ Init
    /\ keepAliveOpt = 5
    /\ useTelnetForToken
    /\ hasErrorListener

NextTelnetLogin ==
    \/ login
    \/ disconnect
    \/ resumeAfterConnect
    \/ resumeAfterTelnet
    \/ resumeAfterSignIn
    \/ \E k \in Sockets : socketOpen(k)
    \/ \E k \in Sockets : socketError(k)
    \/ \E k \in Sockets : socketClose(k)
    \/ \E k \in Sockets : \E m \in ReplyMessages(k) : receiveData(k, m)
    \/ \E t \in 1..Len(tns) : \E d \in Chunks : telnetChunk(t, d)
    \/ \E t \in 1..Len(tns) : \E ev \in {"close", "error", "end"} : telnetGone(t, ev)

SpecTelnetLogin == InitTelnetLogin /\ [][NextTelnetLogin]_vars

\* The keepalive.
InitKeepAlive ==
    /\ Init
    /\ ~useTelnetForToken
    /\ hasErrorListener

NextKeepAlive ==
    \/ login
    \/ connect
    \/ resumeAfterConnect
    \/ resumeAfterSignIn
    \/ state(0)
    \/ pingTimer
    \/ \E k \in Sockets : socketOpen(k)
    \/ \E k \in Sockets : socketError(k)
    \/ \E k \in Sockets : socketClose(k)
    \/ \E k \in Sockets : \E m \in ReplyMessages(k) : receiveData(k, m)

SpecKeepAlive == InitKeepAlive /\ [][NextKeepAlive]_vars

\* Disconnecting: the keepalive timer and the forced termination.
InitDisconnect ==
    /\ Init
    /\ keepAliveOpt = 5
    /\ ~useTelnetForToken
    /\ hasErrorListener

NextDisconnect ==
    \/ login
    \/ connect
    \/ disconnect
    \/ resumeAfterConnect
    \/ resumeAfterSignIn
    \/ pingTimer
    \/ \E k \in Sockets : graceTimer(k)
    \/ \E k \in Sockets : socketOpen(k)
    \/ \E k \in Sockets : socketError(k)
    \/ \E k \in Sockets : socketClose(k)
    \/ \E k \in Sockets : \E m \in ReplyMessages(k) : receiveData(k, m)

SpecDisconnect == InitDisconnect /\ [][NextDisconnect]_vars

\* The telnet scraper on its own: getTokenFromTelnet() called directly.
InitTelnet ==
    /\ Init
    /\ keepAliveOpt = 5
    /\ ~useTelnetForToken
    /\ hasErrorListener

NextTelnet ==
    \/ getTokenFromTelnet
    \/ resumeAfterTelnet
    \/ \E t \in 1..Len(tns) : \E d \in Chunks : telnetChunk(t, d)
    \/ \E t \in 1..Len(tns) : \E ev \in {"close", "error", "end"} : telnetGone(t, ev)

SpecTelnet == InitTelnet /\ [][NextTelnet]_vars

\* Events pushed by the device.
EventMessages(k) == Events \cup MoreEvents \cup UNION {ChannelReplies(i) : i \in Sent(k)}

NextEvents ==
    \/ login
    \/ resumeAfterConnect
    \/ resumeAfterSignIn
    \/ state(0)
    \/ \E k \in Sockets : socketOpen(k)
    \/ \E k \in Sockets : socketClose(k)
    \/ \E k \in Sockets : \E m \in EventMessages(k) : receiveData(k, m)

SpecEvents == InitRequests /\ [][NextEvents]_vars

\* ------------------------------------------------------------ properties
Calls == 1..Len(calls)
Pending(i) == calls[i].status = "pending"

\* C1: an inbound message resolves a pending call if and only if its
\* sequence_id is the id assigned to that call; every other pending call
\* stays pending (neither resolved nor rejected), whatever the order in which
\* the replies arrive.
C1_MessageResolvesExactlyItsCall ==
    [][\A k \in Sockets : \A m \in ChannelMessages(k) :
          receiveData(k, m) =>
             \A i \in Calls :
                Pending(i) =>
                   calls'[i].status = IF m.sequence_id = calls[i].seq
                                      THEN "resolved" ELSE "pending"]_vars

\* The out-of-order case of C1 does happen: the later of two requests in
\* flight is resolved while the earlier one is still pending.
C1_OutOfOrderReached ==
    \E i, j \in Calls :
        /\ calls[i].seq < calls[j].seq
        /\ calls[i].wire /\ calls[j].wire
        /\ Pending(i)
        /\ calls[j].status = "resolved"

\* C2: when a socket closes, or signals an error after it had opened, every
\* call that is pending is rejected in that step and none is left pending;
\* the listeners of a call settle it at most once, a call rejected by the
\* channel exactly once, and a settled call never changes its outcome.
C2_ChannelEnd(k) ==
    \/ socks[k].readyState # "CLOSED" /\ socks'[k].readyState = "CLOSED"
    \/ ~socks[k].errored /\ socks'[k].errored /\ socks[k].opened

C2_RejectedOnceOnClose ==
    /\ [](\A i \in Calls :
             /\ calls[i].settles <= 1
             /\ (calls[i].status = "rejected" /\ ~calls[i].tdz) => calls[i].settles = 1)
    /\ [][\A i \in Calls : ~Pending(i) => calls'[i].status = calls[i].status]_vars
    /\ [][\A k \in Sockets :
             C2_ChannelEnd(k) =>
                \A i \in Calls : Pending(i) => calls'[i].status = "rejected"]_vars

\* Two calls were outstanding when their socket signalled an error and then
\* closed; both were rejected, once.
C2_TwoRejectedReached ==
    \E i, j \in Calls :
        /\ i < j
        /\ calls[i].wire /\ calls[j].wire
        /\ calls[i].status = "rejected" /\ calls[j].status = "rejected"
        /\ calls[i].settles = 1 /\ calls[j].settles = 1
        /\ socks[calls[i].sock].errored
        /\ socks[calls[i].sock].readyState = "CLOSED"

\* C3: every request that goes out with a device_token while a salt is known
\* carries the token of the credentials that are current when it is sent:
\* deviceId + '-' + digest(pin, salt).
C3_TokenOfCurrentCredentials ==
    [][Len(calls') > Len(calls) =>
          LET c == calls'[Len(calls')] IN
          (c.device_token # UNDEF /\ Truthy(salt)) =>
             c.device_token = deviceId \o "-" \o sha1hex(pin', salt)]_vars

C5_NoPingWhenDisabled ==
    keepAliveOpt = 0 => pingCalls = 0 /\ pingsSent = 0

\* C6: every expiry of the keepalive timer transmits one ping if the socket
\* is open, none if it is not, and arms the timer again.
C6_TimerPingsAndRearms ==
    [][pingTimer => /\ pingsSent' = pingsSent + (IF CurOpen THEN 1 ELSE 0)
                    /\ pingArmed']_vars

\* C7: isDeviceReady() is true only if the current socket is open and a
\* sign_in response was processed on it.
C7_SignedIn ==
    \E i \in Calls : /\ calls[i].kind = "sign_in"
                     /\ calls[i].sock = cur
                     /\ calls[i].status = "resolved"

C7_ReadyOnlyWhenSignedInAndOpen ==
    connected => CurOpen /\ C7_SignedIn

\* C8: a login() whose sign_in response lacks salt or device_id fails and
\* does not mark the session connected.
C8_IncompleteSignInFails ==
    [][resumeAfterSignIn =>
          LET c == Head(micro).ref
              m == calls[c].reply
          IN (m.salt = UNDEF \/ m.device_id = UNDEF) =>
                /\ logins'[calls[c].owner].pc = "failed"
                /\ connected' = connected]_vars

\* C9: with useTelnetForToken a login() transmits its sign_in only after its
\* telnet session delivered the token chunk and the value extracted from it
\* became the pin; a login() whose telnet session was rejected, or whose
\* chunk holds no token, has failed without a sign_in.
C9_Logins == 1..Len(logins)

C9_TelnetBeforeSignIn ==
    /\ [](\A l \in C9_Logins :
             /\ logins[l].call # 0 =>
                   /\ logins[l].tn # 0
                   /\ tns[logins[l].tn].promise = "resolved"
                   /\ getToken(tns[logins[l].tn].result).ok
                   /\ logins[l].adopted = getToken(tns[logins[l].tn].result).pin
                   /\ calls[logins[l].call].pinUsed = logins[l].adopted
             /\ (logins[l].tn # 0 /\ tns[logins[l].tn].promise = "rejected") =>
                   logins[l].pc = "failed" /\ logins[l].call = 0
             /\ (/\ logins[l].tn # 0
                 /\ tns[logins[l].tn].promise = "resolved"
                 /\ ~getToken(tns[logins[l].tn].result).ok
                 /\ logins[l].pc # "telnet") =>
                   logins[l].pc = "failed" /\ logins[l].call = 0)
    /\ [][\A l \in C9_Logins :
             (logins[l].call = 0 /\ logins'[l].call # 0) =>
                pin' = getToken(tns[logins[l].tn].result).pin]_vars

\* A login() sent its sign_in with the token read over telnet as the pin.
C9_SignInAfterTelnetReached ==
    \E l \in C9_Logins :
        /\ logins[l].call # 0
        /\ calls[logins[l].call].wire
        /\ logins[l].adopted = "tk"
        /\ pin = "tk"

\* C10: a switch / switchLED call whose set_setting response has code 0
\* returns (echoed value = 1); one whose response has a non-zero code fails
\* with an API error of that code and message and returns no boolean.
C10_SetSettingResult ==
    \A i \in Calls :
        (calls[i].kind = "set_setting" /\ calls[i].status = "resolved") =>
           LET m == calls[i].reply
               o == calls[i].outcome
           IN /\ (m.code = 0 /\ m.setting # <<>>) =>
                    o.t = "bool" /\ (o.b <=> m.setting[1] = 1)
              /\ m.code # 0 =>
                    o.t = "apiError" /\ o.code = m.code /\ o.msg = m.message

\* One switch call returned true, and another failed with the API error 424
\* of its response.
C10_BothResultsReached ==
    \E i, j \in Calls :
        /\ calls[i].kind = "set_setting" /\ calls[j].kind = "set_setting"
        /\ calls[i].outcome.t = "bool" /\ calls[i].outcome.b
        /\ calls[j].outcome.t = "apiError" /\ calls[j].outcome.code = 424

\* C11: a state() call whose get_setting response has code 424 fails with an
\* API error of code 403; with any other non-zero code it fails with an API
\* error of that code.
C11_GetSettingErrorCode ==
    \A i \in Calls :
        (/\ calls[i].kind = "get_setting"
         /\ calls[i].status = "resolved"
         /\ calls[i].reply.code # 0) =>
           /\ calls[i].outcome.t = "apiError"
           /\ calls[i].outcome.code = IF calls[i].reply.code = 424
                                      THEN 403 ELSE calls[i].reply.code

\* C12: for a get_setting response with code 0 and settings s, state(i) with
\* 0 <= i < Len(s) returns (s[i] = 1), and state(-1) returns the list of
\* (s[k] = 1) in the order of the response, of the length of s.
C12_StateResult ==
    \A i \in Calls :
        (/\ calls[i].kind = "get_setting"
         /\ calls[i].status = "resolved"
         /\ calls[i].reply.code = 0) =>
           LET s == calls[i].reply.setting
               o == calls[i].outcome
           IN /\ (calls[i].idx >= 0 /\ calls[i].idx < Len(s)) =>
                    o.t = "bool" /\ (o.b <=> s[calls[i].idx + 1] = 1)
              /\ calls[i].idx = -1 =>
                    /\ o.t = "list"
                    /\ Len(o.list) = Len(s)
                    /\ \A k \in 1..Len(s) : o.list[k] <=> s[k] = 1

\* For the response [1,0,1,0], state(2) returned true and state(-1) returned
\* [true,false,true,false].
C12_ScenarioReached ==
    \E i, j \in Calls :
        /\ calls[i].reply.setting = <<1, 0, 1, 0>> /\ calls[i].idx = 2
        /\ calls[i].outcome.t = "bool" /\ calls[i].outcome.b
        /\ calls[j].reply.setting = <<1, 0, 1, 0>> /\ calls[j].idx = -1
        /\ calls[j].outcome.list = <<TRUE, FALSE, TRUE, FALSE>>

\* C13: the promise of a connect() call is settled by at most one resolve or
\* reject call; it is resolved exactly when the socket has signalled open and
\* rejected only for a socket that signalled error or close without having
\* opened; an error or a close before open rejects it in that step; 'ready'
\* is emitted once for a resolved attempt and never for another one.
C13_ConnectSettlesOnce ==
    /\ [](\A k \in Sockets :
             /\ socks[k].settles <= 1
             /\ socks[k].promise # "pending" <=> socks[k].settles = 1
             /\ socks[k].promise = "resolved" <=> socks[k].opened
             /\ socks[k].promise = "rejected" =>
                   ~socks[k].opened /\ socks[k].errored
             /\ socks[k].ready = IF socks[k].promise = "resolved" THEN 1 ELSE 0)
    /\ [][\A k \in Sockets :
             /\ socketOpen(k) => socks'[k].promise = "resolved"
             /\ (~socks[k].opened /\ (socketError(k) \/ socketClose(k))) =>
                   socks'[k].promise = "rejected"]_vars

\* One connection attempt was resolved and announced with 'ready' and later
\* lost; another was rejected by an error before open and then closed.
C13_BothSettlementsReached ==
    \E j, k \in Sockets :
        /\ socks[j].promise = "resolved" /\ socks[j].ready = 1
        /\ socks[j].readyState = "CLOSED"
        /\ socks[k].promise = "rejected" /\ socks[k].ready = 0
        /\ socks[k].errored /\ socks[k].readyState = "CLOSED"
        /\ socks[k].settles = 1

\* C14: every close of a socket emits one 'close' notification and every
\* error of a socket one 'error' notification on the client, before and
\* after the connection became ready.
C14_CloseAndErrorNotified ==
    [][\A k \in Sockets :
          /\ socketClose(k) => socks'[k].closes = socks[k].closes + 1
          /\ socketError(k) => socks'[k].errors = socks[k].errors + 1]_vars

\* C15: disconnect() leaves no keepalive timer pending and the connected flag
\* cleared; while no timer is pending, none becomes pending and no ping is
\* transmitted unless a connect() creates a new socket.
C15_DisconnectStopsKeepAlive ==
    /\ [][disconnect => ~pingArmed' /\ ~connected']_vars
    /\ [][(~pingArmed /\ Len(socks') = Len(socks)) =>
             ~pingArmed' /\ pingsSent' = pingsSent]_vars

\* disconnect() was called on a signed-in connection whose keepalive timer
\* was pending and had never expired.
C15_TimerCancelledReached ==
    /\ cur # 0
    /\ socks[cur].grace # "none"
    /\ socks[cur].opened /\ ~socks[cur].errored
    /\ \E l \in 1..Len(logins) : logins[l].pc = "done" /\ logins[l].sock = cur
    /\ pingCalls = 1
    /\ pingHandler /\ ~pingArmed

\* C16: when the 500 ms timer of disconnect() expires for a socket that is
\* not closed, termination is forced on that socket, and nothing is thrown
\* out of the timer callback.
C16_GraceTimerForcesClose ==
    [][\A k \in Sockets :
          graceTimer(k) =>
             /\ socks[k].readyState # "CLOSED" => socks'[k].forced
             /\ ~uncaught']_vars

\* C17: a telnet session that received, in this order, a chunk with the
\* login prompt, one with the password prompt, one with the shell prompt and
\* one with the marker has written 'admin\n', '123456\n', the cat command and
\* the end-of-transmission byte, in that order and nothing else, has ended
\* the connection and has succeeded with the marker chunk as its result; the
\* extraction that follows makes the token held by that chunk the pin.
C17_Sessions == 1..Len(tns)
C17_Scenario == <<ChunkLogin, ChunkPassword, ChunkPrompt, ChunkToken>>

C17_TelnetScenario ==
    /\ [](\A t \in C17_Sessions :
             tns[t].seen = C17_Scenario =>
                /\ tns[t].writes = <<"admin\n", "123456\n", CatCommand, "EOT">>
                /\ tns[t].conn \in {"ended", "closed", "failing"}
                /\ tns[t].promise = "resolved"
                /\ tns[t].result = ChunkToken
                /\ tns[t].extract = "ok" => pin = "tk")
    /\ [][\A t \in C17_Sessions :
             (tns[t].seen = C17_Scenario /\ tns[t].extract = "none"
                                         /\ tns'[t].extract # "none") =>
                tns'[t].extract = "ok" /\ pin' = "tk"]_vars

\* The scenario of C17 ran to its end: the token of the file is the pin.
C17_ScenarioReached ==
    \E t \in C17_Sessions :
        /\ tns[t].seen = C17_Scenario
        /\ tns[t].extract = "ok"
        /\ pin = "tk"

\* C18: a close, end or error of the telnet connection while the session is
\* undecided rejects it; a decided session keeps its verdict and its result,
\* whatever arrives afterwards; a session succeeds only with a chunk that
\* holds the marker.
C18_TelnetFailsBeforeMarker ==
    /\ [][\A t \in C17_Sessions :
             /\ (tns[t].promise = "pending"
                 /\ \E ev \in {"close", "error", "end"} : telnetGone(t, ev)) =>
                   tns'[t].promise = "rejected"
             /\ tns[t].promise # "pending" =>
                   /\ tns'[t].promise = tns[t].promise
                   /\ tns'[t].result = tns[t].result]_vars
    /\ [](\A t \in C17_Sessions :
             /\ tns[t].promise = "resolved" <=> tns[t].result # NoChunk
             /\ tns[t].promise = "resolved" => tns[t].result.hasMarker
             /\ (tns[t].promise = "rejected"
                   => \A i \in 1..Len(tns[t].seen) : ~tns[t].seen[i].hasMarker))

\* A session succeeded with the token chunk and kept that result when its
\* connection was closed afterwards.
C18_CloseAfterMarkerReached ==
    \E t \in C17_Sessions :
        /\ tns[t].promise = "resolved"
        /\ tns[t].result = ChunkToken
        /\ tns[t].conn = "closed"

\* C19: when getTokenFromTelnet resumes with a captured chunk none of whose
\* pairs has the key "DeviceToken" (quotes included), it fails and the pin is
\* unchanged; when there is such a pair, the pin becomes the value of the
\* first one without its surrounding quotes.
C19_Extract(t) ==
    LET d == tns[t].result
        hits == {i \in 1..Len(d.pairs) : d.pairs[i].key = TokenKey}
    IN IF hits = {}
       THEN tns'[t].extract = "noToken" /\ pin' = pin
       ELSE \E i \in hits :
               /\ \A h \in hits : i <= h
               /\ tns'[t].extract = "ok"
               /\ Quoted(<<"t", "k">>) = d.pairs[i].value => pin' = "tk"

C19_TokenExtraction ==
    [][\A t \in C17_Sessions :
          (tns[t].extract = "none" /\ tns'[t].extract # "none") => C19_Extract(t)]_vars

\* An extraction failed on a chunk that names DeviceToken only inside a
\* longer key, and left the pin alone.
C19_NoTokenReached ==
    \E t \in C17_Sessions :
        /\ tns[t].result = ChunkNoKey
        /\ tns[t].extract = "noToken"
        /\ pin = InitialPin

\* C20: an event message of type 16 makes the client emit 'switched', one of
\* type 41 'switched-led', each with (value = 1) and the index, one of
\* another type nothing; the message changes neither the sequence counter,
\* nor the connected flag, nor the credentials, nor any call.
C20_Expected(m) ==
    IF m.evType = 16 THEN Note("switched", m.evValue = 1, m.evIdx)
    ELSE IF m.evType = 41 THEN Note("switched-led", m.evValue = 1, m.evIdx)
    ELSE NoNote

C20_EventsNotifiedOnly ==
    [][\A k \in Sockets : \A m \in Events \cup MoreEvents :
          receiveData(k, m) =>
             /\ socks'[k].note = C20_Expected(m)
             /\ UNCHANGED <<sequence, connected, pin, salt, deviceId, token, calls>>]_vars

\* C21: the checks of a chunk run in the order login prompt, password prompt,
\* shell prompt, marker: a chunk that holds both '#' and the marker makes
\* the session write the cat command and then the end-of-transmission byte.
C21_CatBeforeCapture ==
    [][\A t \in C17_Sessions :
          (telnetChunk(t, ChunkTokenPrompt) /\ tns[t].conn = "open") =>
             tns'[t].writes = tns[t].writes \o <<CatCommand, "EOT">>]_vars

\* C29: a telnet session writes the cat command at most once, however many
\* of its chunks hold '#'.
C29_OneCatPerSession ==
    \A t \in C17_Sessions :
        Cardinality({i \in 1..Len(tns[t].writes) : tns[t].writes[i] = CatCommand}) <= 1

\* C22: no secure socket is open while a telnet connection of a login() is
\* open and receiving.
C22_NeverBothOpen ==
    ~ \E k \in Sockets : \E t \in C17_Sessions :
          /\ socks[k].readyState = "OPEN"
          /\ tns[t].owner # 0
          /\ tns[t].conn = "open"
          /\ tns[t].chunks > 0

\* C23: salt and device id are empty after disconnect(), and a request sent
\* after a disconnect() and before the next sign_in response carries neither
\* device_id nor device_token.
C23_DisconnectClearsIdentity ==
    [][disconnect => salt' = "" /\ deviceId' = ""]_vars

\* C24: at most one sign_in request has been sent and is neither answered
\* nor rejected.
C24_OneSignInInFlight ==
    Cardinality({i \in Calls : /\ calls[i].kind = "sign_in"
                               /\ calls[i].wire
                               /\ Pending(i)}) <= 1

\* C25: the sequence counter never decreases; every step that makes a
\* request raises it by at least 1; the id a transmitted request is known by
\* is the counter after the increment, which is the id in its payload and is
\* above the seed; no two requests pending at the same time share an id.
C25_SequenceIds ==
    [][/\ sequence' >= sequence
       /\ Len(calls') > Len(calls) =>
             /\ sequence' >= sequence + 1
             /\ LET c == calls'[Len(calls')]
                IN  c.status = "pending" =>
                       /\ c.seq = sequence'
                       /\ c.seq = buildJSON(c.pinUsed).sequence_id
                       /\ c.seq >= SequenceSeed + 1
       /\ \A i, j \in 1..Len(calls') :
             (i # j /\ calls'[i].status = "pending" /\ calls'[j].status = "pending")
                => calls'[i].seq # calls'[j].seq]_vars

\* C25 witness: two requests are pending at once, made on different sockets
\* (one before and one after a disconnect and re-login).
C25_PendingAcrossReLoginReached ==
    \E i, j \in Calls :
        /\ i < j
        /\ Pending(i) /\ Pending(j)
        /\ calls[i].sock # calls[j].sock
        /\ calls[i].seq = SequenceSeed + 1
        /\ calls[j].seq > calls[i].seq

\* C26: a transmitted request carries device_id and device_token together:
\* both when the device identifier was known at the send, neither otherwise.
C26_IdAndTokenTogether ==
    \A i \in Calls :
        calls[i].wire =>
           (calls[i].device_id # UNDEF <=> calls[i].device_token # UNDEF)

\* C27: a step in which _ping runs (from connect or from the keepalive timer)
\* leaves the sequence counter and every call record unchanged: no call is
\* added, resolved or rejected, and no listener is registered or removed.
C27_PingIsNotCorrelated ==
    [][pingCalls' # pingCalls => (sequence' = sequence /\ calls' = calls)]_vars

\* C27 witness: the keepalive timer has fired after a request was transmitted
\* that is still pending.
C27_TimerFiredWhilePendingReached ==
    /\ pingHandler /\ ~pingArmed
    /\ \E i \in Calls :
          /\ Pending(i) /\ calls[i].wire
          /\ calls[i].pings < pingCalls

\* C28: the calls whose listeners are registered on the client are exactly
\* the calls that are still pending.
C28_ListenersOnlyWhilePending ==
    \A i \in Calls : calls[i].listening <=> Pending(i)

\* C30: while the current socket is open, a close or error event of a socket
\* that connect() has replaced leaves the connected flag as it is and settles
\* no request that was transmitted on the current socket.
C30_OldSocketEventsIgnored ==
    [][\A k \in Sockets :
          ((socketClose(k) \/ socketError(k)) /\ k < cur
              /\ socks[cur].readyState = "OPEN") =>
             /\ connected' = connected
             /\ \A i \in Calls :
                   (calls[i].sock = cur /\ calls[i].wire /\ Pending(i))
                      => calls'[i].status = "pending"]_vars

\* C31: in no telnet session is a write attempted after the
\* end-of-transmission byte was sent and the connection ended.
C31_NoWriteAfterEnd ==
    \A t \in C17_Sessions : ~tns[t].late

\* C32: a request issued while there is no socket, or while the socket is
\* still connecting or already closed, is rejected by the step that issues it.
C32_NotOpenSendRejected ==
    [][(/\ Len(calls') > Len(calls)
        /\ (cur = 0 \/ socks[cur].readyState \in {"CONNECTING", "CLOSED"}))
          => calls'[Len(calls')].status = "rejected"]_vars

\* C33: as long as every login() made so far has failed, salt, device id and
\* the connected flag are what they were before the first of them: the values
\* of the construction.
C33_FailedLoginLeavesIdentity ==
    (logins # <<>> /\ \A l \in 1..Len(logins) : logins[l].pc = "failed")
       => (salt = "" /\ deviceId = "" /\ connected = FALSE)

====
